---------------------------- MODULE Spec2Model ----------------------------
(***************************************************************************)
(* Hyperband scheduler of src/hyperband.py: construction, the idempotent   *)
(* run entry point, generation and persistence of the search state, the    *)
(* bracket sweep with its rounds, and the final link of the best           *)
(* configuration.  The output directory (scheduler configuration file,     *)
(* search-state file, configuration directories, best marker) persists     *)
(* across invocations; everything else is the memory of one process.       *)
(*                                                                         *)
(* Python strings are sequences of character codes, so that sorted() and   *)
(* ','.join() are computed as the code computes them.  A dict is the       *)
(* sequence of its <<key, value>> items in insertion order.  An optional   *)
(* value (a file that may not exist, a record that may lack a key) is a    *)
(* sequence of length 0 or 1.                                              *)
(***************************************************************************)
EXTENDS Integers, Sequences, FiniteSets, TLC

\* ------------------------------------------------------------------ bounds

\* Largest --train-epoch an invocation supplies.
MaxEpoch == 3
\* Rewards the training collaborator reports are 1..MaxReward.
MaxReward == 2
\* The largest max epoch of the budget tables.
MaxBudgetEpoch == 30

\* ------------------------------------------------------- program constants

\* self.eta = math.e, as the rational EtaNum / EtaDen (a convergent of e:
\* every ceil, floor and round of the budget arithmetic agrees with the
\* floating-point result for train_epoch up to 54).
EtaNum == 193
EtaDen == 71

\* ------------------------------------------------------------ Python text

ChEq == 61
ChComma == 44
ChZero == 48
ChA == 97
ChB == 98

RECURSIVE IntToStr(_)
\* str(n) of a non-negative int: its decimal digits ('%s' % n, and the
\* key of a JSON object written from an int-keyed dict).
IntToStr(n) ==
    IF n < 10 THEN <<ChZero + n>>
    ELSE IntToStr(n \div 10) \o <<ChZero + (n % 10)>>

RECURSIVE StrToInt(_)
\* int(k) of a string of decimal digits.
StrToInt(k) ==
    IF Len(k) = 0 THEN 0
    ELSE 10 * StrToInt(SubSeq(k, 1, Len(k) - 1)) + (k[Len(k)] - ChZero)

RECURSIVE LexLess(_, _)
\* x < y on Python strings: by code point, a proper prefix first.
LexLess(x, y) ==
    IF Len(y) = 0 THEN FALSE
    ELSE IF Len(x) = 0 THEN TRUE
    ELSE IF x[1] # y[1] THEN x[1] < y[1]
    ELSE LexLess(Tail(x), Tail(y))

RECURSIVE InsertSorted(_, _)
\* Insert string x after the elements of the sorted list that are <= x.
InsertSorted(x, sortedSeq) ==
    IF Len(sortedSeq) = 0 THEN <<x>>
    ELSE IF LexLess(x, Head(sortedSeq)) THEN <<x>> \o sortedSeq
    ELSE <<Head(sortedSeq)>> \o InsertSorted(x, Tail(sortedSeq))

RECURSIVE SortedStrings(_)
\* sorted(list of strings).
SortedStrings(q) ==
    IF Len(q) = 0 THEN <<>>
    ELSE InsertSorted(q[Len(q)], SortedStrings(SubSeq(q, 1, Len(q) - 1)))

RECURSIVE JoinComma(_)
\* ','.join(list of strings).
JoinComma(q) ==
    IF Len(q) = 0 THEN <<>>
    ELSE IF Len(q) = 1 THEN q[1]
    ELSE q[1] \o <<ChComma>> \o JoinComma(Tail(q))

\* '%s=%s' % (key, value): keys are strings, values are ints.
FormatItem(kv) == kv[1] \o <<ChEq>> \o IntToStr(kv[2])

\* params.items() formatted, in insertion order.
FormattedItems(params) == [k \in 1..Len(params) |-> FormatItem(params[k])]

get_name_unsorted(params) == JoinComma(FormattedItems(params))

\* get_name = lambda params: ','.join(sorted('%s=%s' % kv for kv in params.items()))
get_name(params) == JoinComma(SortedStrings(FormattedItems(params)))

\* ------------------------------------------------------------ Python dict

\* The keys of dict d.
Keys(d) == {d[k][1] : k \in 1..Len(d)}

\* d[key] = value: in place when the key is present, appended otherwise.
DictSet(d, key, value) ==
    IF key \in Keys(d)
    THEN [k \in 1..Len(d) |-> IF d[k][1] = key THEN <<key, value>> ELSE d[k]]
    ELSE Append(d, <<key, value>>)

\* d[key] for a key of d.
DictGet(d, key) == d[CHOOSE k \in 1..Len(d) : d[k][1] = key][2]

RECURSIVE update_supplied_wins(_, _)
update_supplied_wins(d, other) ==
    IF Len(other) = 0 THEN d
    ELSE update_supplied_wins(
             IF Head(other)[1] \in Keys(d) THEN d
             ELSE Append(d, Head(other)),
             Tail(other))

RECURSIVE update(_, _)
\* d.update(other): every item of other is set in d, in other's order.
update(d, other) ==
    IF Len(other) = 0 THEN d
    ELSE update(DictSet(d, Head(other)[1], Head(other)[2]), Tail(other))

\* ------------------------------------------------------ budget arithmetic

RECURSIVE Pow(_, _)
Pow(b, k) == IF k = 0 THEN 1 ELSE b * Pow(b, k - 1)

\* ceil, floor and round of the rational p / q (p >= 0, q > 0); round is
\* Python 3's: a tie goes to the even neighbour.
CeilDiv(p, q) == (p + q - 1) \div q
FloorDiv(p, q) == p \div q
RoundDiv(p, q) ==
    LET f == p \div q
        twice == 2 * (p % q)
    IN  IF twice < q THEN f
        ELSE IF twice > q THEN f + 1
        ELSE IF f % 2 = 0 THEN f ELSE f + 1

RECURSIVE LogEtaFloor(_, _)
\* The largest k >= from with eta^(k+1) <= x fails, i.e. int(log(x) / log(eta)).
LogEtaFloor(x, from) ==
    IF Pow(EtaNum, from + 1) <= x * Pow(EtaDen, from + 1)
    THEN LogEtaFloor(x, from + 1)
    ELSE from

\* self.s_max = int(logeta(self.max_iter))
SMax(max_iter) == LogEtaFloor(max_iter, 0)

\* self.B = (self.s_max + 1) * self.max_iter
Budget(max_iter) == (SMax(max_iter) + 1) * max_iter

\* n = int(math.ceil(self.B / self.max_iter / (s + 1) * self.eta ** s))
InitialCount(max_iter, sb) ==
    CeilDiv((Budget(max_iter) \div max_iter) * Pow(EtaNum, sb),
            (sb + 1) * Pow(EtaDen, sb))

NItersTruncated(max_iter, sb, ri) ==
    FloorDiv(max_iter * Pow(EtaDen, sb - ri), Pow(EtaNum, sb - ri))

\* r = self.max_iter * self.eta ** (-s); n_iters = int(round(r * self.eta ** i))
\* for a round i <= s of bracket s.
NIters(max_iter, sb, ri) ==
    RoundDiv(max_iter * Pow(EtaDen, sb - ri), Pow(EtaNum, sb - ri))

\* n_configs = n * self.eta ** (-i); int(n_configs / self.eta)
KeepCount(nb, ri) ==
    FloorDiv(nb * Pow(EtaDen, ri + 1), Pow(EtaNum, ri + 1))

\* best_info = dict(reward=-float('inf')): below every reward, no 'config' key.
NegInf == -1

\* sorted(results, key=lambda k: k['reward'], reverse=True): stable, so
\* results of equal reward keep their order.
RECURSIVE InsertByReward(_, _)
InsertByReward(x, sortedSeq) ==
    IF Len(sortedSeq) = 0 THEN <<x>>
    ELSE IF x.reward > Head(sortedSeq).reward THEN <<x>> \o sortedSeq
    ELSE <<Head(sortedSeq)>> \o InsertByReward(x, Tail(sortedSeq))

UnsortedByReward(q) == q

RECURSIVE SortedByReward(_)
SortedByReward(q) ==
    IF Len(q) = 0 THEN <<>>
    ELSE InsertByReward(q[Len(q)], SortedByReward(SubSeq(q, 1, Len(q) - 1)))

\* results[: count]
Prefix(q, count) == SubSeq(q, 1, IF count < Len(q) THEN count ELSE Len(q))

MaxByRewardLastWins(best, info) ==
    IF info.reward >= best.reward THEN info ELSE best

\* best_info = max(best_info, info, key=lambda k: k['reward']): max keeps
\* its first argument unless the second is strictly greater.
MaxByReward(best, info) == IF info.reward > best.reward THEN info ELSE best

\* ------------------------------------------------------ persistence (JSON)

\* numpy_to_builtin(state): the sampled mappings hold builtin strings and
\* ints, which it leaves as they are.
numpy_to_builtin(st) == st

\* save_json of an int-keyed dict: a JSON object, whose keys are strings.
save_json(st) ==
    [key \in {IntToStr(sb) : sb \in DOMAIN st} |-> st[StrToInt(key)]]

\* load_json: the JSON object as a dict with string keys.
load_json(file) == file

\* { int(k): v for k, v in load_json(self.state_path).items() }
load_state_keys(json) ==
    [sb \in {StrToInt(key) : key \in DOMAIN json} |-> json[IntToStr(sb)]]

\* ------------------------------------------------------------- input sets

KeyA == <<ChA>>
KeyB == <<ChB>>
KeyA1 == <<ChA, ChZero + 1>>

\* What Model.get_params may return: {b:2, a:1}, inserted out of order,
\* and a mapping whose items sort differently from its keys ('a1=1' <
\* 'a=2' although 'a' < 'a1').
ParamsDomain ==
    { << <<KeyB, 2>>, <<KeyA, 1>> >>,
      << <<KeyA, 2>>, <<KeyA1, 1>> >> }

\* The contents hyperband_config.json may have when it exists.
PersistedConfigs ==
    { [model |-> "cfg_model", data |-> "cfg_data", train_epoch |-> 2,
       vars |-> << <<KeyB, 7>>, <<KeyA1, 8>> >>],
      [model |-> "cfg_model", data |-> "", train_epoch |-> 2,
       vars |-> <<>>] }

\* The command line of one invocation: "" and 0 are an argument not given.
ArgModels == {"", "cli_model"}
ArgData == {"", "cli_data"}
ArgEpochs == {0} \cup (2..MaxEpoch)
ArgDicts == { << <<KeyB, 3>>, <<KeyA, 4>> >> }

\* ------------------------------------------------------------------ state

VARIABLES
    \* the output directory
    cfgFile,        \* hyperband_config.json, when it exists
    stateFile,      \* hyperband_state.json, when it exists
    dirs,           \* configuration directories, by name
    bestLink,       \* best_config, when it exists: the name it links
    \* the process of one invocation
    pc,             \* where the process is
    args,           \* args.model_path, args.data_path, args.train_epoch
    config_dict,    \* the hyperparameter defaults
    hb,             \* self.max_iter, self.s_max, self.B
    state,          \* run's state: bracket -> list of sampled mappings
    samples,        \* the list being built for the bracket being sampled
    s,              \* bracket index of the running loop
    i,              \* round index
    k,              \* position in state[s] while materializing
    T,              \* the active configurations (by name)
    n,              \* len(T) when the bracket started
    idx,            \* position in T within the round
    results,        \* this round's candidates
    best_info,      \* the BestRecord
    \* history, for the properties
    nSamples,       \* get_params calls of this invocation
    nFits,          \* fit calls of this invocation
    nStateWrites,   \* writes of the state file by this invocation
    nSaves,         \* configuration saves of this invocation
    loaded,         \* this run loaded the persisted state
    startFs,        \* the directory when this invocation started
    startBest,      \* the best marker when this invocation started
    startState,     \* the state file when this invocation started
    supplied,       \* the arguments as supplied, until the run starts work
    cfgFile0,       \* hyperband_config.json as it was at first
    genPop,         \* the sampled state as it was in memory when saved,
                    \* and the max_iter of the run that saved it
    swept,          \* mappings this run read from state, and their names
    roundsDone,     \* <<s, i>> of the rounds this run completed
    linkRounds,     \* roundsDone of the run that created the best marker
    nLinks,         \* creations of the best marker
    failSnap,       \* what the failed run had done when it failed
    \* the --clean argument and what else the output directory holds
    clean,          \* args.clean of this invocation, 0 when not given
    others          \* entries of the directory the scheduler never wrote

fsVars == <<cfgFile, stateFile, dirs, bestLink>>
procVars == <<args, config_dict, hb, state, samples, s, i, k, T, n, idx,
              results, best_info>>
runHist == <<nSamples, nFits, nStateWrites, nSaves, loaded, startFs,
             startBest, startState, supplied, swept, roundsDone, failSnap>>
dirHist == <<genPop, linkRounds, nLinks, cfgFile0>>
cleanVars == <<clean, others>>
vars == <<fsVars, pc, procVars, runHist, dirHist, cleanVars>>

NoArgs == [model_path |-> "", data_path |-> "", train_epoch |-> 0]

NoBest == [reward |-> NegInf, config |-> <<>>, epoch |-> 0]

Ended == {"idle", "exited", "assert_failed", "returned", "done", "aborted",
          "crashed_no_best", "crashed_no_bracket"}
Running == {"run", "generate", "save", "sweep", "materialize", "round",
            "finalize"}

Snapshot == [stateFile |-> stateFile, dirs |-> dirs, bestLink |-> bestLink]

Init ==
    /\ cfgFile \in {<<>>} \cup {<<c>> : c \in PersistedConfigs}
    /\ stateFile = <<>>
    /\ dirs = <<>>
    /\ bestLink = <<>>
    /\ pc = "idle"
    /\ args = NoArgs
    /\ supplied = <<>>
    /\ cfgFile0 = cfgFile
    /\ config_dict = <<>>
    /\ hb = <<>>
    /\ state = <<>>
    /\ samples = <<>>
    /\ s = 0
    /\ i = 0
    /\ k = 1
    /\ T = <<>>
    /\ n = 0
    /\ idx = 1
    /\ results = <<>>
    /\ best_info = NoBest
    /\ nSamples = 0
    /\ nFits = 0
    /\ nStateWrites = 0
    /\ nSaves = 0
    /\ loaded = FALSE
    /\ startFs = <<>>
    /\ startBest = <<>>
    /\ startState = <<>>
    /\ genPop = <<>>
    /\ swept = {}
    /\ roundsDone = {}
    /\ linkRounds = <<>>
    /\ nLinks = 0
    /\ failSnap = <<>>
    /\ clean = 0
    /\ others = {}

\* The memory of a process that has not started its run, and the history
\* of an invocation that has done nothing yet.
FreshProcess ==
    /\ state' = <<>>
    /\ samples' = <<>>
    /\ s' = 0
    /\ i' = 0
    /\ k' = 1
    /\ T' = <<>>
    /\ n' = 0
    /\ idx' = 1
    /\ results' = <<>>
    /\ best_info' = NoBest
    /\ nSamples' = 0
    /\ nFits' = 0
    /\ nStateWrites' = 0
    /\ nSaves' = 0
    /\ loaded' = FALSE
    /\ swept' = {}
    /\ roundsDone' = {}
    /\ failSnap' = <<>>

\* ------------------------------------------------------------- invocation

\* The arguments after the merge with the persisted configuration.
MergedArgs(a, cf) ==
    IF cf # <<>>
    THEN [model_path |-> cf[1].model, data_path |-> cf[1].data,
          train_epoch |-> cf[1].train_epoch]
    ELSE a

\* config_dict.update(config['vars'])
MergedDict(cd, cf) == IF cf # <<>> THEN update(cd, cf[1].vars) ELSE cd

PreconditionsNoData(a) == a.model_path # "" /\ a.train_epoch # 0

\* The three asserts of __init__.
Preconditions(a) ==
    a.model_path # "" /\ a.data_path # "" /\ a.train_epoch # 0

\* self.max_iter, self.s_max and self.B
Derived(a) ==
    [max_iter |-> a.train_epoch, s_max |-> SMax(a.train_epoch),
     B |-> Budget(a.train_epoch)]

\* Hyperband.__init__(args, config_dict): the merge, the asserts (an
\* AssertionError ends the process) and the derived fields.
Construct(a, cd) ==
    IF Preconditions(MergedArgs(a, cfgFile))
    THEN /\ args' = MergedArgs(a, cfgFile)
         /\ config_dict' = MergedDict(cd, cfgFile)
         /\ hb' = Derived(MergedArgs(a, cfgFile))
         /\ supplied' = <<[args |-> a, config_dict |-> cd]>>
         /\ pc' = "run"
    ELSE /\ args' = NoArgs
         /\ config_dict' = <<>>
         /\ hb' = <<>>
         /\ supplied' = <<>>
         /\ pc' = "assert_failed"

\* __main__ without --clean: parse the arguments, hb = Hyperband(args,
\* config_dict), and hb.run() is next.
Main ==
    /\ pc \in Ended
    /\ \E m \in ArgModels, d \in ArgData, e \in ArgEpochs, cd \in ArgDicts :
          Construct([model_path |-> m, data_path |-> d, train_epoch |-> e],
                    cd)
    /\ startFs' = <<Snapshot>>
    /\ startBest' = bestLink
    /\ startState' = stateFile
    /\ FreshProcess
    /\ clean' = 0
    /\ UNCHANGED <<fsVars, dirHist, others>>

\* The names of the files the scheduler keeps in the output directory.
ConfigFileName == "hyperband_config.json"
StateFileName == "hyperband_state.json"
BestName == "best_config"

\* The names of what args.hyperband_path holds besides the subdirectories:
\* its files and the best marker (a link).
FileNames ==
    (IF cfgFile # <<>> THEN {ConfigFileName} ELSE {})
        \cup (IF stateFile # <<>> THEN {StateFileName} ELSE {})
        \cup (IF bestLink # <<>> THEN {BestName} ELSE {})
        \cup {e.name : e \in {x \in others : ~x.dir}}

RemovesOnlyConfig(name) == name = ConfigFileName

\* if f._name != 'hyperband_config.json': f.rm()
RemovesFile(name) == name # ConfigFileName

\* The names left once the loop over files has removed what it removes.
KeptFiles == {f \in FileNames : ~RemovesFile(f)}

\* The clean of mode 2: every subdirectory is removed, and every file but
\* the one named hyperband_config.json.
CleanAll ==
    /\ dirs' = <<>>
    /\ cfgFile' = IF ConfigFileName \in KeptFiles THEN cfgFile ELSE <<>>
    /\ stateFile' = IF StateFileName \in KeptFiles THEN stateFile ELSE <<>>
    /\ bestLink' = IF BestName \in KeptFiles THEN bestLink ELSE <<>>
    /\ others' = {e \in others : ~e.dir /\ e.name \in KeptFiles}
    /\ genPop' = IF stateFile' = <<>> THEN <<>> ELSE genPop
    /\ linkRounds' = IF bestLink' = <<>> THEN <<>> ELSE linkRounds
    /\ nLinks' = IF bestLink' = <<>> THEN 0 ELSE nLinks

\* The process of an invocation that exits before Hyperband(args,
\* config_dict): nothing is constructed.
NotConstructed ==
    /\ args' = NoArgs
    /\ config_dict' = <<>>
    /\ hb' = <<>>
    /\ supplied' = <<>>
    /\ startFs' = <<>>
    /\ startBest' = <<>>
    /\ startState' = <<>>
    /\ FreshProcess

CleanThenSearch ==
    /\ pc \in Ended
    /\ \E mode \in {1, 2} :
          /\ clean' = mode
          /\ IF mode = 2
             THEN CleanAll
             ELSE UNCHANGED <<cfgFile, stateFile, dirs, bestLink, others,
                              genPop, linkRounds, nLinks>>
    /\ \E m \in ArgModels, d \in ArgData, e \in ArgEpochs, cd \in ArgDicts :
          Construct([model_path |-> m, data_path |-> d, train_epoch |-> e],
                    cd)
    /\ startFs' = <<>>
    /\ startBest' = <<>>
    /\ startState' = <<>>
    /\ FreshProcess
    /\ UNCHANGED cfgFile0

\* __main__ with --clean 1 or 2: mode 2 removes every subdirectory and
\* every file but hyperband_config.json; both exit without a search.
Clean ==
    /\ pc \in Ended
    /\ \E mode \in {1, 2} :
          /\ clean' = mode
          /\ IF mode = 2
             THEN CleanAll
             ELSE UNCHANGED <<cfgFile, stateFile, dirs, bestLink, others,
                              genPop, linkRounds, nLinks>>
    /\ pc' = "exited"
    /\ NotConstructed
    /\ UNCHANGED cfgFile0

\* ------------------------------------------------------------ run: entry

BestNeverExists == FALSE

\* self.best_path.exists()
BestExists == bestLink # <<>>

StateNeverExists == FALSE

\* self.state_path.exists()
StateExists == stateFile # <<>>

\* run, step 1: the best marker exists, so the run returns at once.
RunAlreadyDone ==
    /\ pc = "run"
    /\ BestExists
    /\ pc' = "returned"
    /\ UNCHANGED <<fsVars, procVars, runHist, dirHist>>
    /\ UNCHANGED cleanVars

\* Hyperband.load_state, when the file exists
load_state == load_state_keys(load_json(stateFile[1]))

\* run, step 2 when the state file exists: load it and go to the sweep.
LoadState ==
    /\ pc = "run"
    /\ ~BestExists
    /\ StateExists
    /\ state' = load_state
    /\ loaded' = TRUE
    /\ s' = hb.s_max
    /\ best_info' = NoBest
    /\ pc' = "sweep"
    /\ startFs' = <<>>
    /\ supplied' = <<>>
    /\ UNCHANGED <<fsVars, args, config_dict, hb, samples, i, k, T, n, idx,
                   results, nSamples, nFits, nStateWrites, nSaves, startBest,
                   startState,
                   swept, roundsDone, failSnap, dirHist>>
    /\ UNCHANGED cleanVars

\* run, step 2 otherwise: state = {} and the loop over s starts at s_max.
BeginGenerate ==
    /\ pc = "run"
    /\ ~BestExists
    /\ ~StateExists
    /\ state' = <<>>
    /\ samples' = <<>>
    /\ s' = hb.s_max
    /\ pc' = "generate"
    /\ startFs' = <<>>
    /\ supplied' = <<>>
    /\ UNCHANGED <<fsVars, args, config_dict, hb, i, k, T, n, idx, results,
                   best_info, nSamples, nFits, nStateWrites, nSaves, loaded,
                   startBest, startState, swept, roundsDone, failSnap,
                   dirHist>>
    /\ UNCHANGED cleanVars

\* Hyperband.save_state(state): the file the write leaves.
save_state(st) == <<save_json(numpy_to_builtin(st))>>

GetParamsSavingEach ==
    /\ pc = "generate"
    /\ \E p \in ParamsDomain :
          LET built == Append(samples, p)
          IN  IF Len(built) < InitialCount(hb.max_iter, s)
              THEN /\ samples' = built
                   /\ UNCHANGED <<state, s, pc, stateFile>>
              ELSE /\ samples' = <<>>
                   /\ state' = (s :> built) @@ state
                   /\ stateFile' = save_state(state')
                   /\ IF s > 0
                      THEN s' = s - 1 /\ pc' = "generate"
                      ELSE s' = s /\ pc' = "save"
    /\ nSamples' = nSamples + 1
    /\ UNCHANGED <<cfgFile, dirs, bestLink, args, config_dict, hb, i, k, T,
                   n, idx, results, best_info, nFits, nStateWrites, nSaves,
                   loaded, startFs, startBest, startState, supplied, swept,
                   roundsDone, failSnap, dirHist>>
    /\ UNCHANGED cleanVars

\* One Model.get_params(config) call of the list built for bracket s; the
\* call that completes the list stores it as state[s], and the one that
\* completes bracket 0 ends the loop.
GetParams ==
    /\ pc = "generate"
    /\ \E p \in ParamsDomain :
          LET built == Append(samples, p)
          IN  IF Len(built) < InitialCount(hb.max_iter, s)
              THEN /\ samples' = built
                   /\ UNCHANGED <<state, s, pc>>
              ELSE /\ samples' = <<>>
                   /\ state' = (s :> built) @@ state
                   /\ IF s > 0
                      THEN s' = s - 1 /\ pc' = "generate"
                      ELSE s' = s /\ pc' = "save"
    /\ nSamples' = nSamples + 1
    /\ UNCHANGED <<fsVars, args, config_dict, hb, i, k, T, n, idx, results,
                   best_info, nFits, nStateWrites, nSaves, loaded, startFs,
                   startBest, startState, supplied, swept, roundsDone,
                   failSnap,
                   dirHist>>
    /\ UNCHANGED cleanVars

\* self.save_state(state) after the loop over every bracket.
SaveState ==
    /\ pc = "save"
    /\ stateFile' = save_state(state)
    /\ nStateWrites' = nStateWrites + 1
    /\ genPop' = <<[state |-> state, max_iter |-> hb.max_iter]>>
    /\ s' = hb.s_max
    /\ best_info' = NoBest
    /\ pc' = "sweep"
    /\ UNCHANGED <<cfgFile, dirs, bestLink, args, config_dict, hb, state,
                   samples, i, k, T, n, idx, results, nSamples, nFits,
                   nSaves, loaded, startFs, startBest, startState, supplied,
                   swept,
                   roundsDone, failSnap, linkRounds, nLinks, cfgFile0>>
    /\ UNCHANGED cleanVars

\* ------------------------------------------------------------ run: sweep

SweepDoneEarly ==
    /\ pc = "sweep"
    /\ s < 1
    /\ pc' = "finalize"
    /\ UNCHANGED <<fsVars, procVars, runHist, dirHist>>
    /\ UNCHANGED cleanVars

\* The loop over s is over: go to the finalization.
SweepDone ==
    /\ pc = "sweep"
    /\ s < 0
    /\ pc' = "finalize"
    /\ UNCHANGED <<fsVars, procVars, runHist, dirHist>>
    /\ UNCHANGED cleanVars

\* T = [] and the loop over state[s] starts.
BeginBracket ==
    /\ pc = "sweep"
    /\ s >= 0
    /\ s \in DOMAIN state
    /\ T' = <<>>
    /\ k' = 1
    /\ pc' = "materialize"
    /\ UNCHANGED <<fsVars, args, config_dict, hb, state, samples, s, i, n,
                   idx, results, best_info, runHist, dirHist>>
    /\ UNCHANGED cleanVars

\* Config.save(force=True, model=..., data=...): the directory holds the
\* configuration given; a training history and an early-stop flag already
\* there stay.
ConfigSave(name, merged) ==
    IF name \in DOMAIN dirs
    THEN [dirs EXCEPT ![name] =
             [@ EXCEPT !.params = merged, !.model = args.model_path,
                       !.data = args.data_path]]
    ELSE (name :> [params |-> merged, model |-> args.model_path,
                   data |-> args.data_path, reward |-> 0,
                   stopped |-> FALSE]) @@ dirs

\* One turn of the loop over state[s]: name the mapping, merge the
\* defaults into it, save the configuration and append it to T.
MaterializeConfig ==
    /\ pc = "materialize"
    /\ k <= Len(state[s])
    /\ LET params == state[s][k]
           name == get_name(params)
           merged == update(params, config_dict)
       IN  /\ state' = [state EXCEPT ![s][k] = merged]
           /\ dirs' = ConfigSave(name, merged)
           /\ T' = Append(T, name)
           /\ swept' = swept \cup
                  {[bracket |-> s, pos |-> k, params |-> params,
                    name |-> name]}
    /\ k' = k + 1
    /\ nSaves' = nSaves + 1
    /\ UNCHANGED <<cfgFile, stateFile, bestLink, pc, args, config_dict, hb,
                   samples, s, i, n, idx, results, best_info, nSamples,
                   nFits, nStateWrites, loaded, startFs, startBest, startState,
                   supplied, roundsDone, failSnap, dirHist>>
    /\ UNCHANGED cleanVars

\* n = len(T); the loop over i starts with round 0 and results = [].
BeginRounds ==
    /\ pc = "materialize"
    /\ k > Len(state[s])
    /\ n' = Len(T)
    /\ i' = 0
    /\ idx' = 1
    /\ results' = <<>>
    /\ pc' = "round"
    /\ UNCHANGED <<fsVars, args, config_dict, hb, state, samples, s, k, T,
                   best_info, runHist, dirHist>>
    /\ UNCHANGED cleanVars

StoppedNever(name) == FALSE

\* config.stopped_early.exists()
StoppedEarly(name) == dirs[name].stopped

\* if config.stopped_early.exists(): continue
SkipStopped ==
    /\ pc = "round"
    /\ i <= s
    /\ idx <= Len(T)
    /\ StoppedEarly(T[idx])
    /\ idx' = idx + 1
    /\ UNCHANGED <<fsVars, pc, args, config_dict, hb, state, samples, s, i,
                   k, T, n, results, best_info, runHist, dirHist>>
    /\ UNCHANGED cleanVars

\* What Model(config).fit(n_iters) may leave in the directory: the
\* training history goes on, so its best reward does not decrease, and the
\* early-stop flag may be raised.  (A history is kept as its best reward.)
FitOutcomes(d, n_iters) ==
    {[d EXCEPT !.reward = IF rw > d.reward THEN rw ELSE d.reward,
               !.stopped = st] : rw \in 1..MaxReward, st \in BOOLEAN}

\* config.load_best_reward(): the best reward of the history and the
\* epoch that reached it (a history being kept as its best reward, the
\* epoch is told by the reward).
load_best_reward(d) == <<d.reward, d.reward>>

\* One turn of the loop over T for a configuration not stopped early: fit,
\* load_best_reward, the BestRecord, and the round's candidates.
Fit ==
    /\ pc = "round"
    /\ i <= s
    /\ idx <= Len(T)
    /\ ~StoppedEarly(T[idx])
    /\ \E after \in FitOutcomes(dirs[T[idx]], NIters(hb.max_iter, s, i)) :
          LET info == [reward |-> load_best_reward(after)[1],
                       config |-> <<T[idx]>>,
                       epoch |-> load_best_reward(after)[2]]
          IN  /\ dirs' = [dirs EXCEPT ![T[idx]] = after]
              /\ best_info' = MaxByReward(best_info, info)
              /\ results' = IF ~after.stopped THEN Append(results, info)
                            ELSE results
    /\ idx' = idx + 1
    /\ nFits' = nFits + 1
    /\ UNCHANGED <<cfgFile, stateFile, bestLink, pc, args, config_dict, hb,
                   state, samples, s, i, k, T, n, nSamples, nStateWrites,
                   nSaves, loaded, startFs, startBest, startState, supplied,
                   swept,
                   roundsDone, failSnap, dirHist>>
    /\ UNCHANGED cleanVars

\* T = [info['config'] for info in results[: int(n_configs / self.eta)]]
Survivors(res, nb, ri) ==
    LET kept == Prefix(SortedByReward(res), KeepCount(nb, ri))
    IN  [j \in 1..Len(kept) |-> kept[j].config[1]]

SelectSurvivorsEarly ==
    /\ pc = "round"
    /\ i <= s
    /\ T' = Survivors(results, n, i)
    /\ roundsDone' = roundsDone \cup {<<s, i>>}
    /\ i' = i + 1
    /\ idx' = 1
    /\ results' = <<>>
    /\ UNCHANGED <<fsVars, pc, args, config_dict, hb, state, samples, s, k,
                   n, best_info, nSamples, nFits, nStateWrites, nSaves,
                   loaded, startFs, startBest, startState, supplied, swept,
                   failSnap, dirHist>>
    /\ UNCHANGED cleanVars

\* The loop over T is over: sort the candidates, keep the best, and go to
\* the next round with results = [].
SelectSurvivors ==
    /\ pc = "round"
    /\ i <= s
    /\ idx > Len(T)
    /\ T' = Survivors(results, n, i)
    /\ roundsDone' = roundsDone \cup {<<s, i>>}
    /\ i' = i + 1
    /\ idx' = 1
    /\ results' = <<>>
    /\ UNCHANGED <<fsVars, pc, args, config_dict, hb, state, samples, s, k,
                   n, best_info, nSamples, nFits, nStateWrites, nSaves,
                   loaded, startFs, startBest, startState, supplied, swept,
                   failSnap,
                   dirHist>>
    /\ UNCHANGED cleanVars

\* The loop over i is over: the loop over s goes to the next bracket.
BracketDone ==
    /\ pc = "round"
    /\ i > s
    /\ s' = s - 1
    /\ pc' = "sweep"
    /\ UNCHANGED <<fsVars, args, config_dict, hb, state, samples, i, k, T, n,
                   idx, results, best_info, runHist, dirHist>>
    /\ UNCHANGED cleanVars

\* ------------------------------------------------------- run: finalization

\* self.link_best(config.name)
link_best(name) == <<name>>

\* config, epoch = best_info['config'], best_info['epoch'];
\* self.link_best(config.name)
LinkBest ==
    /\ pc = "finalize"
    /\ best_info.config # <<>>
    /\ bestLink' = link_best(best_info.config[1])
    /\ nLinks' = nLinks + 1
    /\ linkRounds' = <<[rounds |-> roundsDone, s_max |-> hb.s_max]>>
    /\ pc' = "done"
    /\ UNCHANGED <<cfgFile, stateFile, dirs, procVars, runHist, genPop,
                   cfgFile0>>
    /\ UNCHANGED cleanVars

\* The process ends by an exception: its memory is gone, what it wrote
\* stays (of the history only the number of fit calls is kept).
ProcessDies ==
    /\ args' = NoArgs
    /\ config_dict' = <<>>
    /\ hb' = <<>>
    /\ state' = <<>>
    /\ samples' = <<>>
    /\ s' = 0
    /\ i' = 0
    /\ k' = 1
    /\ T' = <<>>
    /\ n' = 0
    /\ idx' = 1
    /\ results' = <<>>
    /\ best_info' = NoBest
    /\ supplied' = <<>>
    /\ startFs' = <<>>
    /\ startBest' = <<>>
    /\ startState' = <<>>
    /\ swept' = {}
    /\ roundsDone' = {}
    /\ nSamples' = 0
    /\ nStateWrites' = 0
    /\ nSaves' = 0
    /\ loaded' = FALSE

\* best_info['config'] when no fit has set it: KeyError.
FinalizeKeyError ==
    /\ pc = "finalize"
    /\ best_info.config = <<>>
    /\ pc' = "crashed_no_best"
    /\ ProcessDies
    /\ UNCHANGED <<fsVars, nFits, failSnap, dirHist>>
    /\ UNCHANGED cleanVars

\* state[s] for a bracket the loaded state does not hold: KeyError.
BracketKeyError ==
    /\ pc = "sweep"
    /\ s >= 0
    /\ s \notin DOMAIN state
    /\ pc' = "crashed_no_bracket"
    /\ ProcessDies
    /\ UNCHANGED <<fsVars, nFits, failSnap, dirHist>>
    /\ UNCHANGED cleanVars

AbortSwallowed ==
    /\ pc \in Running
    /\ failSnap = <<>>
    /\ failSnap' = <<[stateFile |-> stateFile, bestLink |-> bestLink,
                      nFits |-> nFits]>>
    /\ UNCHANGED <<fsVars, pc, procVars, nSamples, nFits, nStateWrites,
                   nSaves, loaded, startFs, startBest, startState, supplied,
                   swept, roundsDone, dirHist>>
    /\ UNCHANGED cleanVars

\* A collaborator call (get_params, fit, a persistence write) raises, or
\* the process is killed: run catches nothing, the process ends.
Abort ==
    /\ pc \in Running
    /\ pc' = "aborted"
    /\ failSnap' = <<[stateFile |-> stateFile, bestLink |-> bestLink,
                      nFits |-> nFits]>>
    /\ ProcessDies
    /\ UNCHANGED <<fsVars, nFits, dirHist>>
    /\ UNCHANGED cleanVars

Next ==
    \/ Main
    \/ Clean
    \/ RunAlreadyDone
    \/ LoadState
    \/ BeginGenerate
    \/ GetParams
    \/ SaveState
    \/ SweepDone
    \/ BeginBracket
    \/ BracketKeyError
    \/ MaterializeConfig
    \/ BeginRounds
    \/ SkipStopped
    \/ Fit
    \/ SelectSurvivors
    \/ BracketDone
    \/ LinkBest
    \/ FinalizeKeyError
    \/ Abort

Spec == Init /\ [][Next]_vars

\* ------------------------------------------------------------- properties

\* Every round of every bracket 0..smax.
AllRounds(smax) == UNION {{<<sb, ri>> : ri \in 0..sb} : sb \in 0..smax}

\* The number of mappings a generation for max_iter samples.
RECURSIVE TotalCount(_, _)
TotalCount(max_iter, sb) ==
    IF sb < 0 THEN 0
    ELSE InitialCount(max_iter, sb) + TotalCount(max_iter, sb - 1)

RECURSIVE SumLen(_, _)
\* The number of mappings st holds for the brackets of the set.
SumLen(st, brackets) ==
    IF brackets = {} THEN 0
    ELSE LET sb == CHOOSE x \in brackets : TRUE
         IN  Len(st[sb]) + SumLen(st, brackets \ {sb})

\* This invocation was started with the best marker there.
StartedComplete == startBest # <<>>

\* This invocation's run was started with a persisted state and no marker,
\* and is past its entry.
Resumed ==
    /\ startState # <<>>
    /\ startBest = <<>>
    /\ pc \in (Running \ {"run"}) \cup {"done"}

\* C1: an invocation that finds the best marker does no work: no fit, no
\* sampling, no write of the state file, no configuration saved, and the
\* directory, the marker included, stays as it was.
C1_IdempotentCompletion ==
    StartedComplete =>
        /\ pc \in {"assert_failed", "run", "returned"}
        /\ nFits = 0
        /\ nSamples = 0
        /\ nStateWrites = 0
        /\ nSaves = 0
        /\ bestLink = startBest
        /\ startFs = <<Snapshot>>

\* A second invocation has returned at the marker a complete first run
\* created.
C1_Witness ==
    /\ pc = "returned"
    /\ StartedComplete
    /\ nLinks = 1
    /\ stateFile # <<>>

\* C2: a run that finds a persisted state (and no marker) samples
\* nothing, leaves the file as it is, holds the persisted brackets under
\* their integer keys, and every mapping it sweeps is the persisted one at
\* the same position, named as the generating run names it.
C2_ResumeWithoutResampling ==
    Resumed =>
        /\ nSamples = 0
        /\ nStateWrites = 0
        /\ stateFile = startState
        /\ DOMAIN state = {StrToInt(key) : key \in DOMAIN stateFile[1]}
        /\ \A sb \in DOMAIN state :
              /\ Len(state[sb]) = Len(stateFile[1][IntToStr(sb)])
              /\ \A j \in 1..Len(state[sb]) :
                    \/ \E e \in swept : e.bracket = sb /\ e.pos = j
                    \/ state[sb][j] = stateFile[1][IntToStr(sb)][j]
        /\ \A e \in swept :
              /\ e.params = stateFile[1][IntToStr(e.bracket)][e.pos]
              /\ e.params = genPop[1].state[e.bracket][e.pos]
              /\ e.name = get_name(genPop[1].state[e.bracket][e.pos])

\* A resumed run has swept a whole bracket of two brackets.
C2_Witness ==
    /\ Resumed
    /\ pc = "round"
    /\ hb.s_max = 1
    /\ Cardinality(swept) >= 3

\* C3: the state file is written at most once by a run, only when every
\* bracket s_max..0 of that run has been sampled and before any fit; so
\* the file, when it exists, holds the full population of every bracket of
\* the run that wrote it, and a generation starts from nothing: what it
\* holds is what this run has sampled.
C3_AllOrNothingState ==
    /\ nStateWrites <= 1
    /\ pc \in {"generate", "save"} =>
          /\ stateFile = <<>>
          /\ nFits = 0
          /\ DOMAIN state =
                 (IF pc = "save" THEN 0 ELSE s + 1) .. hb.s_max
          /\ nSamples = Len(samples) + SumLen(state, DOMAIN state)
    /\ nStateWrites = 1 =>
          /\ stateFile # <<>>
          /\ nSamples = TotalCount(hb.max_iter, hb.s_max)
    /\ nFits > 0 => stateFile # <<>>
    /\ stateFile # <<>> =>
          /\ genPop # <<>>
          /\ DOMAIN stateFile[1] =
                 {IntToStr(sb) : sb \in 0..SMax(genPop[1].max_iter)}
          /\ \A sb \in 0..SMax(genPop[1].max_iter) :
                 Len(stateFile[1][IntToStr(sb)]) =
                     InitialCount(genPop[1].max_iter, sb)

\* The run that sampled two brackets and wrote the file has gone on to fit.
C3_Witness ==
    /\ nStateWrites = 1
    /\ hb # <<>>
    /\ hb.s_max = 1
    /\ nFits > 0

\* C4: the best marker exists only when the run that created it had
\* completed every round of every bracket; it does not exist while a run
\* is generating or sweeping, and it is created at most once.
C4_BestMarkerIsCompletion ==
    /\ nLinks <= 1
    /\ pc \in {"generate", "save", "sweep", "materialize", "round",
               "finalize"} => bestLink = <<>>
    /\ bestLink # <<>> =>
          /\ linkRounds # <<>>
          /\ linkRounds[1].rounds = AllRounds(linkRounds[1].s_max)

\* The marker exists after a sweep of two brackets.
C4_Witness ==
    /\ bestLink # <<>>
    /\ linkRounds # <<>>
    /\ linkRounds[1].s_max = 1

\* C5: when the best marker is created, the linked configuration's reward
\* is at least the last known best reward of every configuration of the
\* finishing run's brackets, those stopped early included.
C5_BestCoversEarlyStopped ==
    pc = "done" =>
        \A e \in swept :
            dirs[bestLink[1]].reward >= dirs[e.name].reward

\* C6: a run that completes its sweep ends with the best marker.
C6_CompletedSweepLinksBest ==
    pc \in {"done", "crashed_no_best"} => bestLink # <<>>

\* C7: a failure ends the run where it is: no fit and no best marker after
\* it, the state file as it was; and a run that finds the state file
\* loads it and samples nothing.
C7_FailureKeepsState ==
    /\ failSnap # <<>> =>
          /\ pc = "aborted"
          /\ nFits = failSnap[1].nFits
          /\ bestLink = failSnap[1].bestLink
          /\ stateFile = failSnap[1].stateFile
    /\ (startState # <<>> /\ pc \in {"sweep", "materialize", "round"}) =>
          loaded /\ nSamples = 0 /\ stateFile = startState

\* A run has failed after fit calls, with the state file written.
C7_Witness ==
    /\ pc = "aborted"
    /\ failSnap # <<>>
    /\ failSnap[1].stateFile # <<>>
    /\ nFits > 0

\* C8: with a persisted configuration, the constructed scheduler has the
\* persisted model path, data path and max epoch; every persisted default
\* has its persisted value and a default only supplied keeps its supplied
\* value; hyperband_config.json is never written.
C8_PersistedConfigWins ==
    /\ cfgFile = cfgFile0
    /\ (pc = "run" /\ cfgFile # <<>>) =>
          /\ supplied # <<>>
          /\ args.model_path = cfgFile[1].model
          /\ args.data_path = cfgFile[1].data
          /\ args.train_epoch = cfgFile[1].train_epoch
          /\ hb.max_iter = cfgFile[1].train_epoch
          /\ \A key \in Keys(cfgFile[1].vars) :
                 /\ key \in Keys(config_dict)
                 /\ DictGet(config_dict, key) = DictGet(cfgFile[1].vars, key)
          /\ \A key \in Keys(supplied[1].config_dict) \ Keys(cfgFile[1].vars) :
                 /\ key \in Keys(config_dict)
                 /\ DictGet(config_dict, key) =
                        DictGet(supplied[1].config_dict, key)
          /\ Keys(config_dict) =
                 Keys(cfgFile[1].vars) \cup Keys(supplied[1].config_dict)

\* A scheduler was constructed from supplied values that all differ from
\* the persisted ones, with a default supplied and persisted.
C8_Witness ==
    /\ pc = "run"
    /\ cfgFile # <<>>
    /\ supplied # <<>>
    /\ supplied[1].args.model_path = "cli_model"
    /\ supplied[1].args.data_path = "cli_data"
    /\ supplied[1].args.train_epoch = 3
    /\ Keys(supplied[1].config_dict) \cap Keys(cfgFile[1].vars) # {}

\* C9: a run is only ever started with model path, data path and max
\* epoch set; when the construction fails on them the invocation has
\* sampled, fitted and written nothing and the directory is as it was.
C9_PreconditionFailureCreatesNothing ==
    /\ pc \in Running =>
          /\ args.model_path # ""
          /\ args.data_path # ""
          /\ args.train_epoch # 0
    /\ pc = "assert_failed" =>
          /\ startFs = <<Snapshot>>
          /\ cfgFile = cfgFile0
          /\ nSamples = 0
          /\ nFits = 0
          /\ nStateWrites = 0
          /\ nSaves = 0

\* A construction has failed in a directory that holds a search.
C9_Witness ==
    /\ pc = "assert_failed"
    /\ stateFile # <<>>
    /\ DOMAIN dirs # {}

\* The injective maps of 1..m onto itself.
Perms(m) ==
    {f \in [1..m -> 1..m] : \A a, b \in 1..m : a # b => f[a] # f[b]}

\* q reordered by f.
Permuted(q, f) == [j \in 1..Len(q) |-> q[f[j]]]

\* No element of q is less than the one before it.
IsSorted(q) == \A j \in 1..(Len(q) - 1) : ~LexLess(q[j + 1], q[j])

\* The comma-joins of the 'key=value' items of params in sorted order.
CanonicalNames(params) ==
    LET items == FormattedItems(params)
    IN  {JoinComma(Permuted(items, f)) :
            f \in {g \in Perms(Len(params)) : IsSorted(Permuted(items, g))}}

\* 'a=1,b=2'
NameA1B2 == <<ChA, ChEq, ChZero + 1, ChComma, ChB, ChEq, ChZero + 2>>

\* C10: the name given to a swept mapping is the comma-join of its sorted
\* 'key=value' items, every reordering of the mapping gets the same name
\* ({b:2, a:1} gets 'a=1,b=2'), the name is the one the mapping generated
\* at that position gets, and no directory has another name.
C10_CanonicalNaming ==
    /\ \A e \in swept :
          /\ CanonicalNames(e.params) = {e.name}
          /\ \A f \in Perms(Len(e.params)) :
                 get_name(Permuted(e.params, f)) = e.name
          /\ Keys(e.params) = {KeyA, KeyB} => e.name = NameA1B2
          /\ genPop # <<>>
          /\ e.params = genPop[1].state[e.bracket][e.pos]
    /\ DOMAIN dirs \subseteq
          IF genPop = <<>> THEN {}
          ELSE UNION {{get_name(genPop[1].state[sb][j]) :
                          j \in 1..Len(genPop[1].state[sb])} :
                         sb \in DOMAIN genPop[1].state}

\* A resumed run has named {b:2, a:1} 'a=1,b=2'.
C10_Witness ==
    /\ Resumed
    /\ \E e \in swept :
          /\ e.params = << <<KeyB, 2>>, <<KeyA, 1>> >>
          /\ e.name = NameA1B2

\* ------------------------------------------------------------------ clean

\* Entries the scheduler never wrote: a file and a subdirectory.
ForeignEntries ==
    {[name |-> "notes.txt", dir |-> FALSE], [name |-> "old_run", dir |-> TRUE]}

\* A configuration directory as a search may have left it.
LeftDirs ==
    [params : {<< <<KeyA, 1>>, <<KeyB, 2>> >>}, model : {"cli_model"},
     data : {"cli_data"}, reward : 0..1, stopped : BOOLEAN]

\* What the subdirectories of a search may be: none, one, or two.
LeftSearches ==
    {<<>>}
        \cup {(NameA1B2 :> d) : d \in LeftDirs}
        \cup {(NameA1B2 :> d) @@ (get_name(<< <<KeyA, 2>>, <<KeyA1, 1>> >>)
                                     :> [d EXCEPT !.stopped = ~d.stopped]) :
                 d \in LeftDirs}

\* Any content of the output directory, and no process yet.
InitClean ==
    /\ cfgFile \in {<<>>} \cup {<<c>> : c \in PersistedConfigs}
    /\ stateFile \in {<<>>,
                       save_state(0 :> << << <<KeyB, 2>>, <<KeyA, 1>> >> >>)}
    /\ dirs \in LeftSearches
    /\ bestLink \in {<<>>} \cup {<<nm>> : nm \in DOMAIN dirs}
    /\ others \in SUBSET ForeignEntries
    /\ clean = 0
    /\ pc = "idle"
    /\ args = NoArgs
    /\ supplied = <<>>
    /\ cfgFile0 = cfgFile
    /\ config_dict = <<>>
    /\ hb = <<>>
    /\ state = <<>>
    /\ samples = <<>>
    /\ s = 0
    /\ i = 0
    /\ k = 1
    /\ T = <<>>
    /\ n = 0
    /\ idx = 1
    /\ results = <<>>
    /\ best_info = NoBest
    /\ nSamples = 0
    /\ nFits = 0
    /\ nStateWrites = 0
    /\ nSaves = 0
    /\ loaded = FALSE
    /\ startFs = <<>>
    /\ startBest = <<>>
    /\ startState = <<>>
    /\ genPop = <<>>
    /\ swept = {}
    /\ roundsDone = {}
    /\ linkRounds = <<>>
    /\ nLinks = 0
    /\ failSnap = <<>>

NextClean == Clean

\* Invocations with --clean on any content of the output directory.
SpecClean == InitClean /\ [][NextClean]_vars

\* C11: after an invocation with --clean 2 the directory holds no
\* subdirectory (of the search or not), no state file, no best marker and
\* no other file, and hyperband_config.json is as it was.
C11_CleanAllKeepsConfig ==
    clean = 2 =>
        /\ pc = "exited"
        /\ DOMAIN dirs = {}
        /\ others = {}
        /\ stateFile = <<>>
        /\ bestLink = <<>>
        /\ FileNames \subseteq {ConfigFileName}
        /\ cfgFile = cfgFile0

\* A clean of mode 2 has kept the scheduler configuration.
C11_Witness ==
    /\ clean = 2
    /\ pc = "exited"
    /\ cfgFile # <<>>

\* C12: an invocation with --clean constructs no scheduler and runs no
\* search: it ends at exit() with nothing sampled, fitted or saved, and
\* creates neither the state file nor the best marker.
C12_CleanNeverSearches ==
    [][clean' # 0 =>
          /\ pc' = "exited"
          /\ hb' = <<>>
          /\ nSamples' = 0
          /\ nFits' = 0
          /\ nStateWrites' = 0
          /\ nSaves' = 0
          /\ nLinks' <= nLinks
          /\ stateFile' \in {stateFile, <<>>}
          /\ bestLink' \in {bestLink, <<>>}]_vars

\* A clean of mode 1 has exited in a directory that holds a search.
C12_Witness ==
    /\ clean = 1
    /\ pc = "exited"
    /\ stateFile # <<>>
    /\ DOMAIN dirs # {}

\* C13: after an invocation with --clean 1 on a completed search, the
\* only configuration directory left is the one the best marker links.
C13_CleanOneKeepsOnlyBest ==
    (clean = 1 /\ bestLink # <<>>) => DOMAIN dirs = {bestLink[1]}

\* ------------------------------------------------------------ the sweep

\* The rounds that are over when the loops are at round ri of bracket sb:
\* every round of the brackets above sb, and the rounds of sb below ri.
RoundsBefore(smax, sb, ri) ==
    {br \in AllRounds(smax) : br[1] > sb}
        \cup {<<sb, r>> : r \in 0..(ri - 1)}

\* C14: brackets go s_max..0 and the rounds of bracket s go 0..s, each
\* exactly once: while the sweep is at round i of bracket s the rounds
\* completed are those before it; a fit is a step of the current round; a
\* round is completed only when every member of its active set has had
\* its turn, and with the survivors selected; a bracket is left only
\* after round s.
C14_RoundBarrier ==
    [][/\ pc' \in {"sweep", "materialize", "round"} =>
              /\ s' \in (-1)..hb'.s_max
              /\ pc' = "round" => i' \in 0..(s' + 1)
              /\ roundsDone' =
                     RoundsBefore(hb'.s_max, s',
                                  IF pc' = "round" THEN i' ELSE 0)
       /\ nFits' = nFits + 1 =>
              /\ pc = "round" /\ pc' = "round"
              /\ i <= s
              /\ idx <= Len(T)
              /\ <<s, i>> \notin roundsDone
              /\ roundsDone' = roundsDone
              /\ s' = s /\ i' = i /\ T' = T /\ idx' = idx + 1
       /\ (roundsDone' # roundsDone /\ roundsDone' # {}) =>
              /\ roundsDone' = roundsDone \cup {<<s, i>>}
              /\ idx > Len(T)
              /\ nFits' = nFits
              /\ i' = i + 1 /\ s' = s
              /\ T' = Survivors(results, n, i)
       /\ (pc = "round" /\ pc' = "sweep") =>
              /\ i = s + 1
              /\ s' = s - 1
              /\ {<<s, r>> : r \in 0..s} \subseteq roundsDone]_vars

\* The sweep of two brackets is in bracket 0 after both rounds of bracket
\* 1, with fits in each.
C14_Witness ==
    /\ pc = "round"
    /\ hb.s_max = 1
    /\ s = 0
    /\ roundsDone = {<<1, 0>>, <<1, 1>>}
    /\ nFits >= 4

\* kc is the floor of p / q.
FloorIs(kc, p, q) == kc * q <= p /\ p < (kc + 1) * q

\* The one-to-one maps of 1..m into 1..len.
Picks(m, len) ==
    {f \in [1..m -> 1..len] : \A a, b \in 1..m : a # b => f[a] # f[b]}

\* Candidate a of res ranks before candidate b: a greater reward, or the
\* same reward and trained earlier.
RanksBefore(res, a, b) ==
    \/ res[a].reward > res[b].reward
    \/ res[a].reward = res[b].reward /\ a < b

\* C15: at the end of round i of a bracket of n configurations the new T
\* has min(floor(n * eta^(-i) / eta), candidates) members, all of the
\* previous T; they are the candidates that rank first by reward (ties in
\* training order), in that order; with T empty the rest of the bracket
\* fits nothing and raises nothing.
C15_SurvivorSelection ==
    [][/\ (roundsDone' # roundsDone /\ roundsDone' # {}) =>
              /\ \E kc \in 0..n :
                     /\ FloorIs(kc, n * Pow(EtaDen, i + 1),
                                Pow(EtaNum, i + 1))
                     /\ Len(T') = IF kc < Len(results) THEN kc
                                  ELSE Len(results)
              /\ {T'[j] : j \in 1..Len(T')} \subseteq
                     {T[j] : j \in 1..Len(T)}
              /\ \E f \in Picks(Len(T'), Len(results)) :
                     /\ \A j \in 1..Len(T') :
                            T'[j] = results[f[j]].config[1]
                     /\ \A j, j2 \in 1..Len(T') :
                            j < j2 => RanksBefore(results, f[j], f[j2])
                     /\ \A d \in 1..Len(results) :
                            (\A j \in 1..Len(T') : f[j] # d) =>
                                \A j \in 1..Len(T') :
                                    RanksBefore(results, f[j], d)
       /\ (pc = "round" /\ Len(T) = 0) =>
              /\ nFits' = nFits
              /\ pc' \in {"round", "sweep", "aborted"}]_vars

\* Round 0 of a bracket of three has kept one configuration, with two
\* configurations of different rewards not stopped early.
C15_Witness ==
    /\ pc = "round"
    /\ s = 1
    /\ i = 1
    /\ idx = 1
    /\ n = 3
    /\ nFits >= 3
    /\ Len(T) = 1
    /\ \E a, b \in DOMAIN dirs :
          /\ ~dirs[a].stopped /\ ~dirs[b].stopped
          /\ dirs[a].reward > dirs[b].reward /\ dirs[b].reward > 0

\* C16: when a round is over, no configuration of the new T has its
\* early-stop flag: one that was fitted in the round and has the flag is
\* not kept.
C16_StoppedNotKept ==
    (pc = "round" /\ i >= 1 /\ idx = 1) =>
        \A j \in 1..Len(T) : ~dirs[T[j]].stopped

\* C17: fit is called only on a configuration whose early-stop flag does
\* not exist at its turn (in fresh and in resumed runs), and the turn of
\* a configuration that has the flag changes nothing but the position in
\* T: no fit, no result, no change of the BestRecord or of a directory.
C17_StoppedNeverFitted ==
    [][/\ nFits' = nFits + 1 =>
              /\ idx <= Len(T)
              /\ ~dirs[T[idx]].stopped
       /\ (pc = "round" /\ pc' = "round" /\ i' = i /\ idx' = idx + 1
              /\ dirs[T[idx]].stopped) =>
              /\ nFits' = nFits
              /\ results' = results
              /\ best_info' = best_info
              /\ dirs' = dirs
              /\ T' = T]_vars

\* A resumed run has passed over a configuration stopped early and has
\* fitted another.
C17_Witness ==
    /\ Resumed
    /\ pc = "round"
    /\ idx = 3
    /\ nFits = 1
    /\ dirs[T[1]].stopped
    /\ ~dirs[T[2]].stopped

\* C18: the BestRecord of a run starts at negative infinity with no
\* configuration; while the run sweeps its reward never decreases; a fit
\* replaces it by the fitted configuration's (reward, configuration,
\* epoch) when that reward is strictly greater and leaves it otherwise;
\* no other step of the sweep changes it.
C18_BestRecordMonotone ==
    [][/\ (pc \in {"run", "save"} /\ pc' = "sweep") =>
              /\ best_info'.reward = NegInf
              /\ best_info'.config = <<>>
       /\ (pc \in {"sweep", "materialize", "round"}
              /\ pc' \in {"sweep", "materialize", "round", "finalize"}) =>
              /\ best_info'.reward >= best_info.reward
              /\ best_info.reward >= NegInf
              /\ IF nFits' = nFits + 1
                 THEN IF dirs'[T[idx]].reward > best_info.reward
                      THEN /\ best_info'.reward = dirs'[T[idx]].reward
                           /\ best_info'.config = <<T[idx]>>
                           /\ best_info'.epoch =
                                  load_best_reward(dirs'[T[idx]])[2]
                      ELSE best_info' = best_info
                 ELSE best_info' = best_info]_vars

\* A run has fitted a second configuration to the reward of the
\* BestRecord, which is still the first.
C18_Witness ==
    /\ pc = "round"
    /\ ~loaded
    /\ nFits = 2
    /\ idx = 3
    /\ best_info.config = <<T[1]>>
    /\ T[2] # T[1]
    /\ dirs[T[2]].reward = best_info.reward

\* -------------------------------------------------------------- budgets

\* A scheduler constructed for a max epoch, at round 0 of its first
\* bracket, in an empty directory.
InitBudget ==
    /\ cfgFile = <<>>
    /\ stateFile = <<>>
    /\ dirs = <<>>
    /\ bestLink = <<>>
    /\ \E e \in 1..MaxBudgetEpoch :
          args = [model_path |-> "cli_model", data_path |-> "cli_data",
                  train_epoch |-> e]
    /\ hb = Derived(args)
    /\ s = hb.s_max
    /\ i = 0
    /\ n = InitialCount(hb.max_iter, s)
    /\ pc = "run"
    /\ supplied = <<>>
    /\ cfgFile0 = cfgFile
    /\ config_dict = <<>>
    /\ state = <<>>
    /\ samples = <<>>
    /\ k = 1
    /\ T = <<>>
    /\ idx = 1
    /\ results = <<>>
    /\ best_info = NoBest
    /\ nSamples = 0
    /\ nFits = 0
    /\ nStateWrites = 0
    /\ nSaves = 0
    /\ loaded = FALSE
    /\ startFs = <<>>
    /\ startBest = <<>>
    /\ startState = <<>>
    /\ genPop = <<>>
    /\ swept = {}
    /\ roundsDone = {}
    /\ linkRounds = <<>>
    /\ nLinks = 0
    /\ failSnap = <<>>
    /\ clean = 0
    /\ others = {}

\* What the budget steps leave alone.
budgetFrame ==
    <<fsVars, pc, args, config_dict, state, samples, k, T, idx, results,
      best_info, runHist, dirHist, cleanVars>>

\* for i in range(0, s + 1): the next round of the bracket.
BudgetRound ==
    /\ i < s
    /\ i' = i + 1
    /\ UNCHANGED <<hb, s, n, budgetFrame>>

\* for s in range(self.s_max, -1, -1): the next bracket and its n.
BudgetBracket ==
    /\ i = s
    /\ s > 0
    /\ s' = s - 1
    /\ i' = 0
    /\ n' = InitialCount(hb.max_iter, s')
    /\ UNCHANGED <<hb, budgetFrame>>

\* A resume: the scheduler is constructed again for the same max epoch
\* and its loops start again.
BudgetResume ==
    /\ i > 0 \/ s < hb.s_max
    /\ hb' = Derived(args)
    /\ s' = hb'.s_max
    /\ i' = 0
    /\ n' = InitialCount(hb'.max_iter, s')
    /\ UNCHANGED budgetFrame

NextBudget == BudgetRound \/ BudgetBracket \/ BudgetResume

\* The budgets of every bracket and round, for every max epoch.
SpecBudget == InitBudget /\ [][NextBudget]_vars

\* C19: s_max is floor(ln(max_epoch)), B is (s_max + 1) * max_epoch, the
\* fields and n are those of the first construction whatever the number
\* of resumes, and for max epoch 8: s_max = 2, B = 24, bracket 2 has 8
\* configurations, rounds of 1, 3 and 8 iterations, and 2 survivors of
\* round 0.
C19_BudgetArithmetic ==
    /\ hb.max_iter = args.train_epoch
    /\ Pow(EtaNum, hb.s_max) <= hb.max_iter * Pow(EtaDen, hb.s_max)
    /\ Pow(EtaNum, hb.s_max + 1) > hb.max_iter * Pow(EtaDen, hb.s_max + 1)
    /\ hb.B = (hb.s_max + 1) * hb.max_iter
    /\ s \in 0..hb.s_max
    /\ i \in 0..s
    /\ n >= 1
    /\ NIters(hb.max_iter, s, i) >= 1
    /\ NIters(hb.max_iter, s, s) = hb.max_iter
    /\ hb.max_iter = 8 =>
          /\ hb.s_max = 2
          /\ hb.B = 24
          /\ s = 2 =>
                /\ n = 8
                /\ NIters(hb.max_iter, s, i) = <<1, 3, 8>>[i + 1]
                /\ KeepCount(n, 0) = 2

\* Max epoch 8 is at the last round of bracket 2.
C19_Witness ==
    /\ hb.max_iter = 8
    /\ s = 2
    /\ i = 2
    /\ n = 8

\* C20: within a round no configuration directory is fitted twice: the
\* round's candidates, one for each fit that left no early-stop flag, are
\* of different names.
C20_OneFitPerRound ==
    pc = "round" =>
        \A a, b \in 1..Len(results) :
            a # b => results[a].config # results[b].config

====
